---- MODULE Spec2Model ----
(***************************************************************************)
(* Model of pyroute2/netlink/generic.py: the netlink message codec.        *)
(*                                                                         *)
(* A buffer is a sequence of bytes (0..255) with a cursor, as io.BytesIO.  *)
(* Python values are tagged records [k, n, b]: k is the Python type, n the *)
(* number (for an int), b the bytes or the code points (for bytes / str).  *)
(* The interpreter is Python 3 on a little-endian machine (struct's native *)
(* byte order), which is what sys.version[0] == '3' selects in the source. *)
(***************************************************************************)
EXTENDS Integers, Sequences, FiniteSets, TLC

VARIABLES wire, buf, pos, node, pc, err, iters, turns, hi, enc, ret

vars == <<wire, buf, pos, node, pc, err, iters, turns, hi, enc, ret>>

(***************************************************************************)
(* Bounds of the model.                                                    *)
(***************************************************************************)
\* the longest attribute chain of an input message or of a built message
MaxAttrs == 2

(***************************************************************************)
(* Program constants.                                                      *)
(***************************************************************************)
NLMSG_ALIGNTO == 4

Min(a, b) == IF a < b THEN a ELSE b
Max(a, b) == IF a > b THEN a ELSE b

\* (l + NLMSG_ALIGNTO - 1) & ~(NLMSG_ALIGNTO - 1)
\* an alignment that rounds down
NLMSG_ALIGN_down(l) == (l \div NLMSG_ALIGNTO) * NLMSG_ALIGNTO

NLMSG_ALIGN(l) == ((l + NLMSG_ALIGNTO - 1) \div NLMSG_ALIGNTO) * NLMSG_ALIGNTO

(***************************************************************************)
(* Python values.                                                          *)
(***************************************************************************)
IntV(n) == [k |-> "int", n |-> n, b |-> <<>>]
BytesV(b) == [k |-> "bytes", n |-> 0, b |-> b]
StrV(b) == [k |-> "str", n |-> 0, b |-> b]
NoneV == [k |-> "None", n |-> 0, b |-> <<>>]
NotInitialized == [k |-> "NotInitialized", n |-> 0, b |-> <<>>]
\* an atom node that is its own value: {'header': {'length': l, 'type': t}}
NodeV(l, t) == [k |-> "node", n |-> l, b |-> <<t>>]

(***************************************************************************)
(* io.BytesIO: read(n) at the cursor returns the bytes that exist, write   *)
(* overwrites and extends (zero-filling a gap left by seek).               *)
(***************************************************************************)
Read(b, p, n) == IF n <= 0 THEN <<>> ELSE SubSeq(b, p + 1, Min(p + n, Len(b)))

\* one past the last buffer position a read(n) at p touches (0 when none)
ReadEnd(b, p, n) == IF n <= 0 \/ p >= Len(b) THEN 0 ELSE Min(p + n, Len(b))

Zeros(n) == [i \in 1..n |-> 0]

Write(b, p, data) ==
    IF data = <<>> THEN b ELSE
    LET base == IF Len(b) < p THEN b \o Zeros(p - Len(b)) ELSE b
        endp == p + Len(data)
    IN  SubSeq(base, 1, p) \o data \o SubSeq(base, endp + 1, Len(base))

(***************************************************************************)
(* struct: sizes, unpack and pack of the formats the classes use.          *)
(***************************************************************************)
calcsize(fmt) == CASE fmt = "B" -> 1 [] fmt = "H" -> 2 [] fmt = "I" -> 4 [] OTHER -> 0

RECURSIVE unpack_int(_)
unpack_int(raw) == IF raw = <<>> THEN 0 ELSE raw[1] + 256 * unpack_int(Tail(raw))

RECURSIVE pack_int(_, _)
pack_int(v, size) == IF size = 0 THEN <<>> ELSE <<v % 256>> \o pack_int(v \div 256, size - 1)

\* the unsigned range of a format (written without 2^32, which is past the
\* 32-bit integers the model is evaluated with)
in_range(fmt, n) ==
    /\ n >= 0
    /\ CASE fmt = "B" -> n < 256
         [] fmt = "H" -> n < 65536
         [] OTHER -> (n \div 65536) < 65536

(***************************************************************************)
(* pyroute2.common.hexdump: two lowercase hex digits per byte, joined by   *)
(* ':'; the text is kept as its code points.                               *)
(***************************************************************************)
HexDigit(d) == IF d < 10 THEN 48 + d ELSE 87 + d

RECURSIVE HexText(_)
HexText(b) ==
    IF b = <<>> THEN <<>>
    ELSE <<HexDigit(b[1] \div 16), HexDigit(b[1] % 16)>>
         \o (IF Len(b) = 1 THEN <<>> ELSE <<58>> \o HexText(Tail(b)))

hexdump(b) == StrV(HexText(b))

\* bytes.decode('utf-8') succeeds on single-byte code points; the inputs of
\* the model hold no multi-byte sequence, so any byte >= 128 is invalid
Utf8Valid(b) == \A i \in 1..Len(b) : b[i] < 128

(***************************************************************************)
(* Schemas: fields, header, nla_map of the classes.                        *)
(***************************************************************************)
nla_header_fields == << <<"length", "H">>, <<"type", "H">> >>

nlmsg_header_fields ==
    << <<"length", "I">>, <<"type", "H">>, <<"flags", "H">>,
       <<"sequence_number", "I">>, <<"pid", "I">> >>

genlmsg_fields == << <<"cmd", "B">>, <<"version", "B">>, <<"reserved", "H">> >>

ctrlmsg_nla_map ==
    << <<"CTRL_ATTR_UNSPEC", "none">>,
       <<"CTRL_ATTR_FAMILY_ID", "uint16">>,
       <<"CTRL_ATTR_FAMILY_NAME", "asciiz">>,
       <<"CTRL_ATTR_VERSION", "hex">>,
       <<"CTRL_ATTR_HDRSIZE", "hex">>,
       <<"CTRL_ATTR_MAXATTR", "hex">>,
       <<"CTRL_ATTR_OPS", "hex">>,
       <<"CTRL_ATTR_MCAST_GROUPS", "hex">> >>

\* the classes of the model: messages and the atoms ctrlmsg maps
fields(cls) ==
    CASE cls \in {"genlmsg", "ctrlmsg"} -> genlmsg_fields
      [] cls = "uint16" -> << <<"value", "H">> >>
      [] cls = "hex" -> << <<"value", "s">> >>
      [] cls = "asciiz" -> << <<"value", "z">> >>
      [] OTHER -> <<>>

header(cls) == IF cls \in {"genlmsg", "ctrlmsg"} THEN nlmsg_header_fields
               ELSE nla_header_fields

nla_map(cls) == IF cls = "ctrlmsg" THEN ctrlmsg_nla_map ELSE <<>>

get_size(fs) == IF fs = <<>> THEN 0
                ELSE LET S[i \in 0..Len(fs)] ==
                             IF i = 0 THEN 0 ELSE S[i - 1] + calcsize(fs[i][2])
                     IN  S[Len(fs)]

\* register_nlas: by-type and by-name tables; the type is the position
t_nla_map(cls) == [t \in 0..(Len(nla_map(cls)) - 1) |->
                     [class |-> nla_map(cls)[t + 1][2], name |-> nla_map(cls)[t + 1][1]]]

r_nla_names(cls) == {nla_map(cls)[i][1] : i \in 1..Len(nla_map(cls))}

r_nla_map(cls) == [nm \in r_nla_names(cls) |->
                     LET t == CHOOSE t \in 0..(Len(nla_map(cls)) - 1) :
                                  /\ nla_map(cls)[t + 1][1] = nm
                                  /\ \A u \in (t + 1)..(Len(nla_map(cls)) - 1) :
                                         nla_map(cls)[u + 1][1] # nm
                     IN  [class |-> nla_map(cls)[t + 1][2], type |-> t]]

(***************************************************************************)
(* nlmsg_base.__init__: every field 0, 'attrs' empty, 'value' and          *)
(* self.value NotInitialized.  A dict is a function from its keys.         *)
(***************************************************************************)
field_names(fs) == {fs[i][1] : i \in 1..Len(fs)}

init_dict(fs) == [nm \in field_names(fs) \cup {"value"} |->
                    IF nm = "value" THEN NotInitialized ELSE IntV(0)]

\* del self['value'] when it is NotInitialized (end of decode)
del_value(d) == IF "value" \in DOMAIN d /\ d["value"] = NotInitialized
                THEN [nm \in (DOMAIN d) \ {"value"} |-> d[nm]]
                ELSE d

\* getvalue(): self.value, else self['value'], else the node itself
getvalue(value, d, self) ==
    IF value # NotInitialized THEN value
    ELSE IF "value" \in DOMAIN d /\ d["value"] # NotInitialized THEN d["value"]
    ELSE self

(***************************************************************************)
(* decode(), the field block (lines 329-359).  st = [d, pos, hi, exc]: the *)
(* dict, the cursor, one past the highest position read, an exception.     *)
(***************************************************************************)
\* one field of the loop
decode_field(f, b, length, st) ==
    LET name == f[1]
        fmt == f[2]
        isStr == fmt \in {"s", "z"}
        size0 == IF isStr THEN length - 4 ELSE calcsize(fmt)
        raw == Read(b, st.pos, size0)
        actual_size == Len(raw)
        size == IF isStr THEN actual_size ELSE size0
        after == [st EXCEPT !.pos = st.pos + actual_size,
                            !.hi = Max(st.hi, ReadEnd(b, st.pos, size0))]
        value == IF isStr THEN BytesV(raw) ELSE IntV(unpack_int(raw))
    IN  IF size0 < 0
        THEN [st EXCEPT !.exc = TRUE]             \* struct.error: bad format
        ELSE IF size # actual_size
        THEN after                                \* FIXME: log an error
        ELSE IF fmt = "z" /\ raw = <<>>
        THEN [after EXCEPT !.d = (name :> value) @@ st.d,
                           !.exc = TRUE]          \* IndexError: self[name][-1]
        ELSE IF fmt = "z" /\ raw[Len(raw)] = 0
        THEN [after EXCEPT !.d = (name :> BytesV(SubSeq(raw, 1, Len(raw) - 1))) @@ st.d]
        ELSE [after EXCEPT !.d = (name :> value) @@ st.d]

RECURSIVE decode_fields(_, _, _, _, _)
decode_fields(fs, i, b, length, st) ==
    IF i > Len(fs) \/ st.exc THEN st
    ELSE decode_fields(fs, i + 1, b, length, decode_field(fs[i], b, length, st))

(***************************************************************************)
(* decode(), the header (lines 298-316) of a node at offset: the header    *)
(* node's own decode (its fields, then the cursor aligned), the length     *)
(* taken from it, the raw snapshot.  A short read leaves the field at 0.   *)
(* h is the header's field block as decoded.                               *)
(***************************************************************************)
\* the header taken without the floor of line 305: length is header.length as read
header_result_unclamped(h, b, offset, debug) ==
    [exc |-> h.exc,
     header |-> del_value(h.d),
     length |-> h.d["length"].n,
     raw |-> Read(b, offset, h.d["length"].n),
     pos |-> NLMSG_ALIGN(h.pos),
     hi |-> Max(h.hi, ReadEnd(b, offset, h.d["length"].n))]

header_result(h, b, offset, debug) ==
    LET length == Max(h.d["length"].n, 4)
        hd == del_value(h.d)
    IN  [exc |-> h.exc,
         header |-> IF debug THEN ("length" :> IntV(length)) @@ hd ELSE hd,
         length |-> length,
         raw |-> Read(b, offset, length),
         pos |-> NLMSG_ALIGN(h.pos),
         hi |-> Max(h.hi, ReadEnd(b, offset, length))]

decode_header(cls, b, offset, debug, hi0) ==
    header_result(decode_fields(header(cls), 1, b, 0,
                      [d |-> init_dict(header(cls)), pos |-> offset, hi |-> hi0, exc |-> FALSE]),
                  b, offset, debug)

(***************************************************************************)
(* decode() of an atom (nla_base.decode and the atom's own decode) built   *)
(* over the buffer at init with the clamped length; an atom has no         *)
(* nla_map.  exc says that decode() raised.  H is the decoded header, F    *)
(* the decoded field block.                                                *)
(***************************************************************************)
nla_result(cls, init, length, H, F) ==
    LET d == del_value(F.d)
        self == NodeV(H.header["length"].n, H.header["type"].n)
        value == CASE cls = "none" -> NoneV
                   [] cls = "hex" -> hexdump(d["value"].b)
                   [] cls = "asciiz" -> IF Utf8Valid(d["value"].b)
                                        THEN StrV(d["value"].b) ELSE d["value"]
                   [] OTHER -> NotInitialized
    IN  IF H.exc
        THEN [exc |-> TRUE, value |-> NoneV, offset |-> init, length |-> length,
              pos |-> H.pos, hi |-> H.hi]
        ELSE IF F.exc
        THEN [exc |-> TRUE, value |-> NoneV, offset |-> init, length |-> H.length,
              pos |-> F.pos, hi |-> F.hi]
        ELSE [exc |-> FALSE, value |-> getvalue(value, d, self), offset |-> init,
              length |-> H.length, pos |-> NLMSG_ALIGN(F.pos), hi |-> F.hi]

nla_data(cls, b, init, length, H) ==
    nla_result(cls, init, length, H,
               decode_fields(fields(cls), 1, b, H.length,
                   [d |-> init_dict(fields(cls)), pos |-> H.pos, hi |-> H.hi, exc |-> FALSE]))

nla_decode(cls, b, init, length, debug, hi0) ==
    nla_data(cls, b, init, length, decode_header(cls, b, init, debug, hi0))

(***************************************************************************)
(* A message node: the dict (d: fields and 'value'; header; attrs, with    *)
(* hasAttrs saying that the key 'attrs' exists) and the object's           *)
(* attributes (offset, length, raw, debug).  hdrx holds what debug mode    *)
(* adds to the header dict.  An attrs entry is the list [name, value],     *)
(* [name, value, nla] after encode, [name, value, type, length, init] in   *)
(* debug mode: n is the list's length.                                     *)
(***************************************************************************)
NoNla == [class |-> "", length |-> 0, type |-> 0]

NoDebug == [set |-> FALSE, class |-> "", raw |-> NoneV, offset |-> 0]

Entry(name, value) == [name |-> name, value |-> value, n |-> 2, nla |-> NoNla, dbg |-> <<>>]

DebugEntry(name, value, msg_type, length, init) ==
    [name |-> name, value |-> value, n |-> 5, nla |-> NoNla, dbg |-> <<msg_type, length, init>>]

\* __init__ (lines 139-155)
new_node(cls, debug) ==
    [cls |-> cls, debug |-> debug,
     d |-> init_dict(fields(cls)),
     header |-> init_dict(header(cls)),
     hdrx |-> NoDebug,
     attrs |-> <<>>, hasAttrs |-> TRUE,
     offset |-> 0, length |-> 0, raw |-> <<>>]

\* the end of decode() (lines 372-375)
decode_cleanup(n) ==
    [n EXCEPT !.hasAttrs = (Len(n.attrs) # 0), !.d = del_value(n.d)]

(***************************************************************************)
(* The inputs: a buffer with the cursor at a message.  The message is a    *)
(* nlmsg header, the genlmsg fields and a chain of attributes drawn from   *)
(* AttrMenu; it is sound, or its header length is wrong, or the buffer is  *)
(* cut short, or more bytes follow it, or another message precedes it, or   *)
(* it starts at a position that is no multiple of 4.                       *)
(***************************************************************************)
AttrMenu ==
    { <<4, 0, 0, 0>>,                      \* none
      <<6, 0, 1, 0, 7, 0, 0, 0>>,          \* uint16 7
      <<6, 0, 2, 0, 97, 0, 0, 0>>,         \* asciiz "a"
      <<4, 0, 2, 0>>,                      \* asciiz with no payload
      <<8, 0, 3, 0, 1, 0, 0, 0>>,          \* hex, 4 bytes
      <<4, 0, 7, 0>>,                      \* hex, no payload
      <<3, 0, 3, 0>>,                      \* header length below 4
      <<40, 0, 3, 0, 1, 2, 3, 4>>,         \* header length beyond the message
      <<8, 0, 9, 0, 5, 5, 5, 5>> }         \* a type ctrlmsg does not map

RECURSIVE Chains(_)
Chains(n) == IF n = 0 THEN {<<>>}
             ELSE LET S == Chains(n - 1)
                  IN  S \cup {c \o a : c \in S, a \in AttrMenu}

nlmsg_header_bytes(length) ==
    pack_int(length, 4) \o pack_int(16, 2) \o pack_int(5, 2) \o pack_int(1, 4) \o pack_int(2, 4)

Message(chain, length) == nlmsg_header_bytes(length) \o <<1, 2, 0, 0>> \o chain

Sound(chain) == Message(chain, 20 + Len(chain))

Inputs ==
    LET C == Chains(MaxAttrs)
    IN  {[wire |-> Sound(c), start |-> 0] : c \in C}
        \cup {[wire |-> Message(c, l), start |-> 0] : c \in C, l \in {2, 22, 30}}
        \cup {[wire |-> SubSeq(Sound(c), 1, t), start |-> 0] : c \in C, t \in {2, 8, 18}}
        \cup {[wire |-> Sound(c) \o <<8, 0, 1, 0, 9, 9, 9, 9>>, start |-> 0] : c \in C}
        \cup {[wire |-> Sound(<<>>) \o Sound(c), start |-> 20] : c \in C}
        \cup {[wire |-> <<0, 0>> \o Sound(c), start |-> 2] : c \in Chains(1)}

InitOf(inputs, classes) ==
    /\ \E in \in inputs : wire = in.wire /\ pos = in.start
    /\ buf = wire
    /\ \E cls \in classes, debug \in BOOLEAN : node = new_node(cls, debug)
    /\ pc = "new"
    /\ err = ""
    /\ iters = 0
    /\ turns = <<>>
    /\ hi = 0
    /\ enc = <<>>
    /\ ret = [op |-> ""]

Init == InitOf(Inputs, {"genlmsg", "ctrlmsg"})

(***************************************************************************)
(* decode(): the header, the field block, the alignment of the chain's     *)
(* start (lines 297-366); a node without nla_map ends here.  H is the      *)
(* decoded header, F the decoded field block.                              *)
(***************************************************************************)
decode_chain(H, F) ==
    LET n1 == [node EXCEPT !.offset = pos, !.header = H.header, !.length = H.length,
                           !.raw = H.raw,
                           !.hdrx = IF node.debug
                                    THEN [set |-> TRUE, class |-> node.cls,
                                          raw |-> hexdump(H.raw), offset |-> pos]
                                    ELSE NoDebug,
                           !.d = F.d]
    IN  IF H.exc
        THEN /\ pc' = "failed" /\ err' = "NetlinkHeaderDecodeError"
             /\ node' = [node EXCEPT !.offset = pos]
             /\ pos' = H.pos /\ hi' = H.hi
        ELSE IF F.exc
        THEN /\ pc' = "failed" /\ err' = "NetlinkDataDecodeError"
             /\ node' = n1 /\ pos' = F.pos /\ hi' = F.hi
        ELSE /\ pos' = NLMSG_ALIGN(F.pos) /\ hi' = F.hi /\ err' = err
             /\ IF nla_map(node.cls) # <<>>
                THEN pc' = "decode_nlas" /\ node' = n1
                ELSE pc' = "decoded" /\ node' = decode_cleanup(n1)

decode_data(H) ==
    decode_chain(H, decode_fields(fields(node.cls), 1, buf, H.length,
                        [d |-> node.d, pos |-> H.pos, hi |-> H.hi, exc |-> FALSE]))

decode ==
    /\ pc = "new"
    /\ decode_data(decode_header(node.cls, buf, pos, node.debug, hi))
    /\ UNCHANGED <<wire, buf, iters, turns, enc, ret>>

(***************************************************************************)
(* decode_nlas(): one turn of the loop (lines 543-586).  turns records    *)
(* what each turn of the loop did.                                         *)
(***************************************************************************)
\* the clamp without its floor of 4: what the loop would do had line 550 no max()
clamp_unfloored(length, node_length, init, offset) ==
    Min(length, node_length - init + offset)

clamp(length, node_length, init, offset) ==
    Min(Max(length, 4), node_length - init + offset)

\* the record of one turn: the attribute at init, what its header says, the
\* clamped length, the child (when the type is mapped) and the length it ends
\* up with, and the cursor the turn leaves
Turn(init, head_length, length, msg_type, mapped, nla) ==
    [offset |-> init, head |-> head_length, clamped |-> length, type |-> msg_type,
     mapped |-> mapped, length |-> nla.length, exc |-> nla.exc,
     next |-> init + NLMSG_ALIGN(length)]

\* the turn without the except branch of lines 567-570: the child's value is
\* taken whether or not its decode() raised
decode_mapped_unguarded(init, head_length, length, msg_type, nla) ==
    /\ node' = [node EXCEPT !.attrs = Append(@,
                   IF node.debug
                   THEN DebugEntry(t_nla_map(node.cls)[msg_type].name, nla.value,
                                   msg_type, length, init)
                   ELSE Entry(t_nla_map(node.cls)[msg_type].name, nla.value))]
    /\ turns' = Append(turns, Turn(init, head_length, length, msg_type, TRUE, nla))
    /\ hi' = nla.hi

\* the attribute's type is mapped: nla is the child after its decode()
decode_mapped(init, head_length, length, msg_type, nla) ==
    LET msg_name == t_nla_map(node.cls)[msg_type].name
        msg_value == IF nla.exc THEN hexdump(Read(buf, init, length)) ELSE nla.value
    IN  /\ node' = [node EXCEPT !.attrs = Append(@,
                       IF node.debug
                       THEN DebugEntry(msg_name, msg_value, msg_type, length, init)
                       ELSE Entry(msg_name, msg_value))]
        /\ turns' = Append(turns, Turn(init, head_length, length, msg_type, TRUE, nla))
        /\ hi' = IF nla.exc THEN Max(nla.hi, ReadEnd(buf, init, length)) ELSE nla.hi

decode_nla(init, head, hi1) ==
    LET head_length == unpack_int(SubSeq(head, 1, 2))
        length == clamp(head_length, node.length, init, node.offset)
        msg_type == unpack_int(SubSeq(head, 3, 4))
    IN  IF Len(head) < 4
        THEN \* struct.unpack('HH', ...) raises struct.error
             /\ pc' = "failed" /\ err' = "NetlinkNLADecodeError"
             /\ pos' = init + Len(head) /\ hi' = hi1
             /\ UNCHANGED <<node, turns, iters>>
        ELSE /\ pc' = pc /\ err' = err
             /\ iters' = iters + 1
             /\ pos' = init + NLMSG_ALIGN(length)
             /\ IF msg_type \in DOMAIN t_nla_map(node.cls)
                THEN decode_mapped(init, head_length, length, msg_type,
                         nla_decode(t_nla_map(node.cls)[msg_type].class, buf, init, length,
                                    node.debug, hi1))
                ELSE /\ hi' = hi1
                     /\ turns' = Append(turns, Turn(init, head_length, length, msg_type,
                                                   FALSE, [length |-> 0, exc |-> FALSE]))
                     /\ UNCHANGED node

decode_nlas ==
    /\ pc = "decode_nlas"
    /\ pos < node.offset + node.length
    /\ decode_nla(pos, Read(buf, pos, 4), Max(hi, ReadEnd(buf, pos, 4)))
    /\ UNCHANGED <<wire, buf, enc, ret>>

\* the loop is left; the end of decode()
decode_end ==
    /\ pc = "decode_nlas"
    /\ pos >= node.offset + node.length
    /\ pc' = "decoded"
    /\ node' = decode_cleanup(node)
    /\ UNCHANGED <<wire, buf, pos, err, iters, turns, hi, enc, ret>>

(***************************************************************************)
(* encode(), the field block (lines 386-415): the payload, or the          *)
(* exception struct.pack or len() raises on a value of the wrong type.     *)
(***************************************************************************)
\* a str is forced to bytes (utf-8) before it is packed
to_bytes(v) == IF v.k = "str" THEN BytesV(v.b) ELSE v

\* struct.pack(fmt, value) of one field; length is the size of an 's'
pack(fmt, length, value) ==
    IF fmt \in {"B", "H", "I"}
    THEN IF value.k = "int" /\ in_range(fmt, value.n)
         THEN [exc |-> "", bytes |-> pack_int(value.n, calcsize(fmt))]
         ELSE [exc |-> "struct.error", bytes |-> <<>>]
    ELSE IF value.k = "bytes"
         THEN [exc |-> "",
               bytes |-> SubSeq(value.b, 1, Min(length, Len(value.b)))
                         \o Zeros(Max(length - Len(value.b), 0))]
         ELSE [exc |-> "struct.error", bytes |-> <<>>]

RECURSIVE encode_fields(_, _, _, _)
encode_fields(fs, i, d, payload) ==
    IF i > Len(fs) THEN [exc |-> "", payload |-> payload]
    ELSE
      LET name == fs[i][1]
          fmt == fs[i][2]
          value == d[name]
          sized == value.k \in {"str", "bytes", "node"}
          length == CASE fmt = "s" -> Len(value.b)
                      [] fmt = "z" -> Len(value.b) + 1
                      [] OTHER -> 0
          p == pack(fmt, length, to_bytes(value))
      IN  IF name \notin DOMAIN d THEN [exc |-> "KeyError", payload |-> payload]
          ELSE IF fmt \in {"s", "z"} /\ ~sized THEN [exc |-> "TypeError", payload |-> payload]
          ELSE IF p.exc # "" THEN [exc |-> p.exc, payload |-> payload]
          ELSE encode_fields(fs, i + 1, d, payload \o p.bytes)

\* update_length(start, diff) (lines 428-433): the header is packed with the
\* length and written at start; the cursor returns to save.  p is the packed
\* header
header_written(h, b, start, p) ==
    [exc |-> p.exc, header |-> h,
     buf |-> IF p.exc = "" THEN Write(b, start, p.payload) ELSE b]

header_encode(h, b, start) ==
    header_written(h, b, start,
        encode_fields(IF "pid" \in DOMAIN h THEN nlmsg_header_fields ELSE nla_header_fields,
                      1, h, <<>>))

\* update_length that forgets diff
update_length_nodiff(hd, b, start, save, diff) ==
    header_encode(("length" :> IntV(save - start)) @@ hd, b, start)

update_length(hd, b, start, save, diff) ==
    header_encode(("length" :> IntV(save - start - diff)) @@ hd, b, start)

(***************************************************************************)
(* encode() of an atom set up by encode_nlas (lines 529-533): the header   *)
(* type is msg_type, setvalue(v) stores v as self['value'] and self.value. *)
(* Returns the buffer, the cursor and what the call did.  P is the packed  *)
(* field block, U the header written back.                                 *)
(***************************************************************************)
nla_patched(save, P, U) ==
    [exc |-> U.exc, buf |-> U.buf, pos |-> save,
     length |-> U.header["length"].n, payload |-> Len(P.payload)]

nla_written(cls, msg_type, b, init, skip, P) ==
    LET reserved == init + get_size(header(cls))
        diff == IF skip THEN 0 ELSE NLMSG_ALIGN(Len(P.payload)) - Len(P.payload)
        save == reserved + Len(P.payload) + diff
    IN  IF P.exc # ""
        THEN [exc |-> P.exc, buf |-> b, pos |-> reserved, length |-> 0, payload |-> 0]
        ELSE nla_patched(save, P,
                 update_length(("type" :> IntV(msg_type)) @@ init_dict(header(cls)),
                     Write(Write(b, reserved, P.payload), reserved + Len(P.payload), Zeros(diff)),
                     init, save, diff))

nla_encode(cls, msg_type, v, b, init) ==
    LET d0 == ("value" :> v) @@ init_dict(fields(cls))
        skip == getvalue(v, d0, NodeV(0, msg_type)).k = "None"
    IN  nla_written(cls, msg_type, b, init, skip,
            IF skip THEN [exc |-> "", payload |-> <<>>]
            ELSE encode_fields(fields(cls), 1, d0, <<>>))

(***************************************************************************)
(* encode_nlas() (lines 519-540): st = [exc, buf, pos, attrs, enc]; enc    *)
(* records where each child was written.                                   *)
(***************************************************************************)
\* one entry of the loop when the child is stored whatever the entry's length
encode_entry_stored(i, st, msg_class, msg_type, nla) ==
    IF nla.exc # ""
    THEN [st EXCEPT !.exc = nla.exc, !.buf = nla.buf, !.pos = nla.pos]
    ELSE [st EXCEPT !.buf = nla.buf, !.pos = nla.pos,
                    !.attrs = [@ EXCEPT ![i] =
                                  [@ EXCEPT !.n = 3,
                                            !.nla = [class |-> msg_class, length |-> nla.length,
                                                     type |-> msg_type]]],
                    !.enc = Append(@, [entry |-> i, start |-> st.pos, stop |-> nla.pos,
                                       payload |-> nla.payload])]

\* one entry of the loop, nla its encoded child
encode_entry(i, st, msg_class, msg_type, nla) ==
    LET e == st.attrs[i]
        child == [class |-> msg_class, length |-> nla.length, type |-> msg_type]
        e2 == IF e.n = 2 THEN [e EXCEPT !.n = 3, !.nla = child]
              ELSE IF e.n = 3 THEN [e EXCEPT !.nla = child]
              ELSE e
    IN  IF nla.exc # ""
        THEN [st EXCEPT !.exc = nla.exc, !.buf = nla.buf, !.pos = nla.pos]
        ELSE [st EXCEPT !.buf = nla.buf, !.pos = nla.pos,
                        !.attrs = [@ EXCEPT ![i] = e2],
                        !.enc = Append(@, [entry |-> i, start |-> st.pos, stop |-> nla.pos,
                                           payload |-> nla.payload])]

encode_nla(cls, i, st, name) ==
    IF name \notin DOMAIN r_nla_map(cls)
    THEN st
    ELSE encode_entry(i, st, r_nla_map(cls)[name].class, r_nla_map(cls)[name].type,
             nla_encode(r_nla_map(cls)[name].class, r_nla_map(cls)[name].type,
                        st.attrs[i].value, st.buf, st.pos))

RECURSIVE encode_nlas(_, _, _)
encode_nlas(cls, i, st) ==
    IF i > Len(st.attrs) \/ st.exc # "" THEN st
    ELSE encode_nlas(cls, i + 1, encode_nla(cls, i, st, st.attrs[i].name))

(***************************************************************************)
(* reset() (lines 165-173) and encode() (lines 377-426) of the message     *)
(* into a new, empty buffer.  P is the packed field block, A the state     *)
(* after the chain, U the header written back.                             *)
(***************************************************************************)
msg_patched(n, P, A, U) ==
    [exc |-> U.exc, buf |-> U.buf, pos |-> A.pos,
     node |-> [n EXCEPT !.attrs = A.attrs, !.header = U.header],
     enc |-> Append(A.enc, [entry |-> 0, start |-> 0, stop |-> A.pos,
                            payload |-> Len(P.payload)])]

msg_chain(n, P, diff, A) ==
    IF A.exc # ""
    THEN [exc |-> A.exc, buf |-> A.buf, pos |-> A.pos,
          node |-> [n EXCEPT !.attrs = A.attrs], enc |-> A.enc]
    ELSE msg_patched(n, P, A, update_length(n.header, A.buf, 0, A.pos, diff))

msg_written(n, P) ==
    LET reserved == get_size(header(n.cls))
        diff == NLMSG_ALIGN(Len(P.payload)) - Len(P.payload)
        b1 == Write(Write(<<>>, reserved, P.payload), reserved + Len(P.payload), Zeros(diff))
        p1 == reserved + Len(P.payload) + diff
        st == [exc |-> "", buf |-> b1, pos |-> p1, attrs |-> n.attrs, enc |-> <<>>]
    IN  IF P.exc # ""
        THEN [exc |-> P.exc, buf |-> <<>>, pos |-> reserved, node |-> n, enc |-> <<>>]
        ELSE IF nla_map(n.cls) = <<>>
        THEN msg_chain(n, P, diff, st)
        ELSE IF ~n.hasAttrs
        THEN [exc |-> "KeyError", buf |-> b1, pos |-> p1, node |-> n, enc |-> <<>>]
        ELSE msg_chain(n, P, 0, encode_nlas(n.cls, 1, st))

encode_msg(n) == msg_written(n, encode_fields(fields(n.cls), 1, n.d, <<>>))

encode_done(r) ==
    /\ buf' = r.buf /\ pos' = r.pos /\ node' = r.node /\ enc' = r.enc
    /\ err' = r.exc
    /\ pc' = IF pc \in {"decoded", "reencoded"}
             THEN (IF r.exc = "" THEN "reencoded" ELSE "reencode_failed")
             ELSE (IF r.exc = "" THEN "encoded" ELSE "encode_failed")

\* the caller resets the node to an empty buffer and encodes it
encode ==
    /\ pc \in {"decoded", "reencoded", "built", "edited", "encoded"}
    /\ encode_done(encode_msg(node))
    /\ ret' = [op |-> "encode"]
    /\ UNCHANGED <<wire, iters, turns, hi>>

(***************************************************************************)
(* get_attrs() and get_attr() (lines 448-467), fmt = 'raw'.                *)
(***************************************************************************)
\* a lookup that stops at the first entry of the name
select_first(attrs, attr) ==
    IF \E i \in 1..Len(attrs) : attrs[i].name = attr
    THEN <<attrs[CHOOSE i \in 1..Len(attrs) :
                   /\ attrs[i].name = attr
                   /\ \A j \in 1..(i - 1) : attrs[j].name # attr].value>>
    ELSE <<>>

RECURSIVE select(_, _)
select(attrs, attr) ==
    IF attrs = <<>> THEN <<>>
    ELSE (IF attrs[1].name = attr THEN <<attrs[1].value>> ELSE <<>>)
         \o select(Tail(attrs), attr)

\* raised: self['attrs'] is a KeyError on a node without the key
get_attrs(n, attr) ==
    IF n.hasAttrs THEN [raised |-> FALSE, out |-> select(n.attrs, attr)]
    ELSE [raised |-> TRUE, out |-> <<>>]

get_attr_of(r, default) ==
    IF r.raised THEN default
    ELSE IF r.out # <<>> THEN r.out[1]
    ELSE default

get_attr(n, attr, default) == get_attr_of(get_attrs(n, attr), default)

(***************************************************************************)
(* strip() and _strip_one() (lines 175-187).  list.remove(i) drops the     *)
(* first entry equal to i.                                                 *)
(***************************************************************************)
RECURSIVE remove(_, _)
remove(attrs, i) ==
    IF attrs = <<>> THEN <<>>
    ELSE IF attrs[1] = i THEN Tail(attrs)
    ELSE <<attrs[1]>> \o remove(Tail(attrs), i)

\* a loop that leaves after the first entry it removes
strip_loop_once(snapshot, k, attrs, name) ==
    IF \E i \in k..Len(snapshot) : snapshot[i].name = name
    THEN remove(attrs, snapshot[CHOOSE i \in k..Len(snapshot) :
                                   /\ snapshot[i].name = name
                                   /\ \A j \in k..(i - 1) : snapshot[j].name # name])
    ELSE attrs

\* the loop over the snapshot tuple(self['attrs']), from its k-th entry
RECURSIVE strip_loop(_, _, _, _)
strip_loop(snapshot, k, attrs, name) ==
    IF k > Len(snapshot) THEN attrs
    ELSE strip_loop(snapshot, k + 1,
             IF snapshot[k].name = name THEN remove(attrs, snapshot[k]) ELSE attrs, name)

strip_one(st, name) ==
    IF st.raised THEN st
    ELSE IF ~st.node.hasAttrs THEN [st EXCEPT !.raised = TRUE]
    ELSE [st EXCEPT !.node.attrs = strip_loop(st.node.attrs, 1, st.node.attrs, name)]

RECURSIVE strip_names(_, _, _)
strip_names(st, names, k) ==
    IF k > Len(names) THEN st
    ELSE strip_names(strip_one(st, names[k]), names, k + 1)

\* arg is one name (a string) or a collection of names
strip(n, arg) == strip_names([node |-> n, raised |-> FALSE], arg.names, 1)

(***************************************************************************)
(* __ops(), __sub__ and __and__ (lines 189-233) of a message (its          *)
(* getvalue() is the message itself).  The result is built on a new        *)
(* instance of the class, whose constructor has set every field to 0.      *)
(***************************************************************************)
ops_keep(a, b, key, op0) ==
    IF op0 = "__sub__"
    THEN (key \notin DOMAIN b.d) \/ (a.d[key] # b.d[key])
    ELSE (key \in DOMAIN b.d) /\ (a.d[key] = b.d[key])

ops_fields(a, b, op0) ==
    LET res == init_dict(fields(a.cls))
        d == [key \in (DOMAIN res) \cup {k \in DOMAIN a.d : ops_keep(a, b, k, op0)} |->
                 IF key \in DOMAIN a.d /\ ops_keep(a, b, key, op0) THEN a.d[key] ELSE res[key]]
    IN  \* del res['value']
        [key \in (DOMAIN d) \ {"value"} |-> d[key]]

RECURSIVE ops_attrs(_, _, _)
ops_attrs(attrs, b, op0) ==
    IF attrs = <<>> THEN <<>>
    ELSE (IF (op0 = "__sub__") = (get_attr(b, attrs[1].name, NoneV) # attrs[1].value)
          THEN <<attrs[1]>> ELSE <<>>)
         \o ops_attrs(Tail(attrs), b, op0)

ops_result(d, attrs) == [d |-> d, attrs |-> attrs, hasAttrs |-> attrs # <<>>]

ops(a, b, op0) ==
    ops_result(ops_fields(a, b, op0),
               IF a.hasAttrs THEN ops_attrs(a.attrs, b, op0) ELSE <<>>)

(***************************************************************************)
(* The callers of the lookup surface: a message built by hand (a node      *)
(* constructed without a buffer, its fields and attrs assigned), names to  *)
(* look up, names to strip, right operands of - and &.                     *)
(***************************************************************************)
BuildMenu ==
    { Entry("CTRL_ATTR_FAMILY_ID", IntV(7)),
      Entry("CTRL_ATTR_FAMILY_ID", IntV(8)),
      Entry("CTRL_ATTR_FAMILY_NAME", StrV(<<104, 105>>)),
      Entry("CTRL_ATTR_UNSPEC", NoneV),
      Entry("X_ATTR_UNKNOWN", IntV(7)) }

RECURSIVE Lists(_)
Lists(n) == IF n = 0 THEN {<<>>}
            ELSE LET S == Lists(n - 1)
                 IN  S \cup {Append(l, e) : l \in S, e \in BuildMenu}

built(n, cmd, attrs) == [n EXCEPT !.d["cmd"] = IntV(cmd), !.attrs = attrs]

build ==
    /\ pc = "new"
    /\ wire = <<>>
    /\ \E cmd \in {1, 3}, attrs \in Lists(MaxAttrs) : node' = built(node, cmd, attrs)
    /\ pc' = "built"
    /\ UNCHANGED <<wire, buf, pos, err, iters, turns, hi, enc, ret>>

Ready == pc \in {"decoded", "built", "edited", "encoded", "reencoded"}

Names == {"CTRL_ATTR_FAMILY_ID", "CTRL_ATTR_MCAST_GROUPS", "CTRL_ATTR_OPS"}

call_get_attrs ==
    /\ Ready
    /\ \E attr \in Names :
          ret' = [op |-> "get_attrs", attr |-> attr, r |-> get_attrs(node, attr)]
    /\ UNCHANGED <<wire, buf, pos, node, pc, err, iters, turns, hi, enc>>

call_get_attr ==
    /\ Ready
    /\ \E attr \in Names, default \in {NoneV, IntV(99)} :
          ret' = [op |-> "get_attr", attr |-> attr, default |-> default,
                  r |-> get_attr(node, attr, default)]
    /\ UNCHANGED <<wire, buf, pos, node, pc, err, iters, turns, hi, enc>>

StripArgs ==
    { [single |-> TRUE, names |-> <<"CTRL_ATTR_FAMILY_ID">>],
      [single |-> FALSE, names |-> <<>>],
      [single |-> FALSE, names |-> <<"CTRL_ATTR_MCAST_GROUPS", "CTRL_ATTR_OPS">>],
      [single |-> FALSE, names |-> <<"CTRL_ATTR_FAMILY_NAME", "CTRL_ATTR_FAMILY_ID">>] }

strip_done(arg, r) ==
    /\ ret' = [op |-> "strip", arg |-> arg, before |-> node, raised |-> r.raised]
    /\ node' = r.node
    /\ pc' = IF r.node = node THEN pc ELSE "edited"

call_strip ==
    /\ Ready
    /\ \E arg \in StripArgs : strip_done(arg, strip(node, arg))
    /\ UNCHANGED <<wire, buf, pos, err, iters, turns, hi, enc>>

\* right operands: built messages, and a decoded one without attributes
Others ==
    { built(new_node("ctrlmsg", FALSE), 1, <<Entry("CTRL_ATTR_FAMILY_ID", IntV(7))>>),
      built(new_node("ctrlmsg", FALSE), 1,
            <<Entry("CTRL_ATTR_FAMILY_ID", IntV(8)), Entry("CTRL_ATTR_FAMILY_ID", IntV(7)),
              Entry("CTRL_ATTR_FAMILY_NAME", StrV(<<104, 105>>))>>),
      built(new_node("ctrlmsg", FALSE), 3, <<Entry("CTRL_ATTR_UNSPEC", NoneV)>>),
      decode_cleanup([new_node("ctrlmsg", FALSE) EXCEPT
                         !.d = ("cmd" :> IntV(1)) @@ ("version" :> IntV(2)) @@ @]) }

call_sub ==
    /\ Ready
    /\ \E b \in Others : ret' = [op |-> "__sub__", b |-> b, r |-> ops(node, b, "__sub__")]
    /\ UNCHANGED <<wire, buf, pos, node, pc, err, iters, turns, hi, enc>>

call_and ==
    /\ Ready
    /\ \E b \in Others : ret' = [op |-> "__and__", b |-> b, r |-> ops(node, b, "__and__")]
    /\ UNCHANGED <<wire, buf, pos, node, pc, err, iters, turns, hi, enc>>

Next == decode \/ decode_nlas \/ decode_end \/ encode

Spec == Init /\ [][Next]_vars

(***************************************************************************)
(* The lookup surface on built and on decoded messages.                    *)
(***************************************************************************)
ApiInputs ==
    {[wire |-> <<>>, start |-> 0]}
    \cup {[wire |-> Sound(c), start |-> 0] :
             c \in {<<>>, <<6, 0, 1, 0, 7, 0, 0, 0>>,
                    <<4, 0, 7, 0>> \o <<6, 0, 1, 0, 7, 0, 0, 0>> \o <<4, 0, 7, 0>>,
                    <<8, 0, 7, 0, 1, 0, 0, 0>> \o <<6, 0, 1, 0, 7, 0, 0, 0>> \o <<4, 0, 7, 0>>}}

InitApi == InitOf(ApiInputs, {"ctrlmsg"})

NextApi ==
    \/ Next
    \/ build
    \/ call_get_attrs
    \/ call_get_attr
    \/ call_strip
    \/ call_sub
    \/ call_and

SpecApi == InitApi /\ [][NextApi]_vars

(***************************************************************************)
(* Properties of decode() and encode().                                    *)
(***************************************************************************)
\* where the attribute chain of a message node starts (the cursor is aligned
\* after the header and again after the field block), and where the node ends
chain_start(n) ==
    NLMSG_ALIGN(NLMSG_ALIGN(n.offset + get_size(header(n.cls))) + get_size(fields(n.cls)))

node_end(n) == n.offset + n.length

\* the turns of the loop that decoded a child
RECURSIVE children(_)
children(ts) ==
    IF ts = <<>> THEN <<>>
    ELSE (IF ts[1].mapped THEN <<ts[1]>> ELSE <<>>) \o children(Tail(ts))

Decoding == pc \in {"decode_nlas", "decoded", "failed"}

\* one attribute of the schema at the head of the chain c, whole and padded
WellFormedAttr(cls, c, length, type) ==
    /\ length >= 4
    /\ NLMSG_ALIGN(length) <= Len(c)
    /\ type \in DOMAIN t_nla_map(cls)
    /\ \A k \in (length + 1)..NLMSG_ALIGN(length) : c[k] = 0
    /\ CASE t_nla_map(cls)[type].class = "none" -> length = 4
         [] t_nla_map(cls)[type].class = "uint16" -> length = 6
         [] t_nla_map(cls)[type].class = "asciiz" ->
                /\ length > 4
                /\ c[length] = 0
                /\ \A k \in 5..(length - 1) : c[k] # 0
         [] OTHER -> TRUE

RECURSIVE WellFormedChain(_, _)
WellFormedChain(cls, c) ==
    IF c = <<>> THEN TRUE
    ELSE /\ Len(c) >= 4
         /\ WellFormedAttr(cls, c, unpack_int(SubSeq(c, 1, 2)), unpack_int(SubSeq(c, 3, 4)))
         /\ WellFormedChain(cls, SubSeq(c, NLMSG_ALIGN(unpack_int(SubSeq(c, 1, 2))) + 1, Len(c)))

\* the buffer is one whole message of the node's class
WellFormed ==
    /\ node.offset = 0
    /\ Len(wire) >= chain_start(node)
    /\ unpack_int(SubSeq(wire, 1, 4)) = Len(wire)
    /\ WellFormedChain(node.cls, SubSeq(wire, chain_start(node) + 1, Len(wire)))

\* C1: a well-formed message of the node's class, decoded and then encoded
\* into an empty buffer, gives back exactly the bytes it was decoded from:
\* encode() succeeds and the buffer equals the input.
C1_RoundTrip ==
    (pc \in {"reencoded", "reencode_failed"} /\ WellFormed)
        => (pc = "reencoded" /\ buf = wire)

\* C2: every child attribute lies inside its parent, from the end of the
\* parent's field block to the parent's end, with the length the child ends up
\* with; and no read goes to the parent's end or beyond.
C2_Containment ==
    (Decoding /\ node.length > 0) =>
        /\ \A i \in 1..Len(turns) :
              turns[i].mapped =>
                 /\ turns[i].offset >= chain_start(node)
                 /\ turns[i].offset + turns[i].length <= node_end(node)
        /\ hi <= node_end(node)

\* the loop runs at most ceil(node length / 4) turns, every turn moves the
\* cursor forward by at least 4 bytes, and the turns follow one another
LoopBounded ==
    /\ Len(turns) = iters
    /\ iters <= (node.length + 3) \div 4
    /\ \A i \in 1..Len(turns) :
          /\ turns[i].next >= turns[i].offset + 4
          /\ turns[i].offset = IF i = 1 THEN chain_start(node) ELSE turns[i - 1].next
    /\ (pc = "decode_nlas" /\ turns # <<>>) => pos = turns[Len(turns)].next

\* C3 as written: the loop is bounded as above, and an attribute whose header
\* length is 0..3 is given the length 4.
C3_ShortLengthIsFour ==
    Decoding =>
        /\ LoopBounded
        /\ \A i \in 1..Len(turns) : turns[i].head < 4 => turns[i].clamped = 4

\* C3: the attribute loop ends after at most ceil(node length / 4) turns, each
\* of which moves the cursor forward by at least 4 bytes; an attribute whose
\* header length is 0..3 gets the length min(4, bytes the node has left), its
\* child node ends up with length 4 and the cursor moves by exactly 4.
C3_Termination ==
    Decoding =>
        /\ LoopBounded
        /\ \A i \in 1..Len(turns) :
              /\ turns[i].clamped =
                    Min(Max(turns[i].head, 4), node_end(node) - turns[i].offset)
              /\ turns[i].head < 4 =>
                    /\ turns[i].next = turns[i].offset + 4
                    /\ (turns[i].mapped /\ ~turns[i].exc) => turns[i].length = 4

C3_Witness ==
    /\ pc = "decoded"
    /\ \E i \in 1..Len(turns) :
          /\ turns[i].head < 4 /\ turns[i].clamped < 4
          /\ turns[i].next = turns[i].offset + 4

\* the entries of attrs stand for the children, one each, in wire order
EntriesFollowChildren(cs) ==
    /\ Len(node.attrs) = Len(cs)
    /\ \A i \in 1..Len(cs) :
          /\ node.attrs[i].name = t_nla_map(node.cls)[cs[i].type].name
          /\ cs[i].exc =>
                node.attrs[i].value = hexdump(Read(wire, cs[i].offset, cs[i].clamped))
          /\ i > 1 => cs[i].offset > cs[i - 1].offset

\* C4: a child whose decode() fails does not fail the parent's decode(): the
\* parent holds exactly one entry per decoded child, under the canonical name
\* of its type, in wire order; the entry of a failed child is the hex dump of
\* the clamped length from the attribute's start; the loop goes on to the end
\* of the node, and the only error of the loop is an attribute header cut short.
C4_LocalizedRecovery ==
    (Decoding /\ nla_map(node.cls) # <<>> /\ node.length > 0) =>
        /\ EntriesFollowChildren(children(turns))
        /\ pc = "decoded" => pos >= node_end(node)
        /\ pc = "failed" =>
              /\ err = "NetlinkNLADecodeError"
              /\ Len(wire) < 4 + (IF turns = <<>> THEN chain_start(node)
                                  ELSE turns[Len(turns)].next)

C4_Witness ==
    /\ pc = "decoded"
    /\ \E i \in 1..(Len(turns) - 1) :
          /\ turns[i].mapped /\ turns[i].exc
          /\ turns[i + 1].mapped /\ ~turns[i + 1].exc
    /\ Len(node.attrs) = Len(turns)

\* C5: when decode() finds fewer bytes at the cursor than the fixed header
\* needs, it ends with NetlinkHeaderDecodeError.
C5_HeaderShortage ==
    (pc \in {"decoded", "failed"} /\ Len(wire) - node.offset < get_size(header(node.cls)))
        => (pc = "failed" /\ err = "NetlinkHeaderDecodeError")

\* the length a written node carries in the buffer, and the padding after its
\* field block; e is a record of enc
written_length(e) == unpack_int(Read(buf, e.start, IF e.entry = 0 THEN 4 ELSE 2))

padding(e) == NLMSG_ALIGN(e.payload) - e.payload

\* C6: after encode(), the length written into the header of the message and
\* of every child is the count of bytes from the start of its encode() to the
\* cursor after it, less the padding that follows its field block.
C6_EncodedLength ==
    pc \in {"reencoded", "encoded"} =>
        /\ enc # <<>>
        /\ \A i \in 1..Len(enc) :
              /\ written_length(enc[i]) = enc[i].stop - enc[i].start - padding(enc[i])
              /\ enc[i].entry = 0 => node.header["length"].n = written_length(enc[i])
              /\ (enc[i].entry > 0 /\ node.attrs[enc[i].entry].n = 3) =>
                    node.attrs[enc[i].entry].nla.length = written_length(enc[i])

C6_Witness ==
    /\ pc = "reencoded"
    /\ \E i \in 1..Len(enc) : enc[i].entry > 0 /\ padding(enc[i]) > 0
    /\ \E i \in 1..Len(enc) : enc[i].entry > 0 /\ enc[i].payload = 0

\* C7 as written: after decode() returns, the header field 'length' is the
\* number of bytes of the raw snapshot.
C7_HeaderLengthIsRawLength ==
    pc = "decoded" => node.header["length"].n = Len(node.raw)

\* C7: after decode() returns, the node's length is max(header length, 4) and
\* the raw snapshot holds the bytes the buffer has from the node's offset, at
\* most that many; so the header field equals len(raw) when it is at least 4
\* and the buffer holds the whole node.
C7_RawLength ==
    pc = "decoded" =>
        /\ node.length = Max(node.header["length"].n, 4)
        /\ node.raw = Read(wire, node.offset, node.length)
        /\ Len(node.raw) = Min(node.length, Max(Len(wire) - node.offset, 0))
        /\ (node.header["length"].n >= 4 /\ node_end(node) <= Len(wire))
              => node.header["length"].n = Len(node.raw)

C7_Witness ==
    /\ pc = "decoded"
    /\ node.header["length"].n < 4
    /\ Len(node.raw) = 4


(***************************************************************************)
(* Properties of the lookup surface.                                       *)
(***************************************************************************)
\* the k-th smallest member of a set of positions
kth(S, k) == CHOOSE i \in S : Cardinality({j \in S : j < i}) = k - 1

\* the entries of attrs at the positions S, in the order they stand
EntriesAt(attrs, S) == [k \in 1..Cardinality(S) |-> attrs[kth(S, k)]]

Named(attrs, names) == {i \in 1..Len(attrs) : attrs[i].name \in names}

ValuesOf(attrs, name) ==
    [k \in 1..Cardinality(Named(attrs, {name})) |-> attrs[kth(Named(attrs, {name}), k)].value]

FirstOr(values, default) == IF Len(values) > 0 THEN values[1] ELSE default

\* C8 as written: on every node, get_attrs(name) returns the values of the
\* entries of that name in the order of attrs, duplicates included, and
\* get_attr(name, default) returns the first of them, or default when there is
\* none or the node has no attrs.
C8_LookupEveryNode ==
    /\ ret.op = "get_attrs" =>
          (~ret.r.raised /\ ret.r.out = ValuesOf(node.attrs, ret.attr))
    /\ ret.op = "get_attr" =>
          ret.r = FirstOr(ValuesOf(node.attrs, ret.attr), ret.default)

\* C8: on a node that has an attrs list, get_attrs(name) returns the values of
\* the entries of that name in the order of attrs, duplicates included; on a
\* node without attrs it raises KeyError.  get_attr(name, default) returns the
\* first of these values, or default when there is none or the node has no
\* attrs.
C8_Lookup ==
    /\ ret.op = "get_attrs" =>
          IF node.hasAttrs
          THEN ~ret.r.raised /\ ret.r.out = ValuesOf(node.attrs, ret.attr)
          ELSE ret.r.raised /\ node.attrs = <<>>
    /\ ret.op = "get_attr" =>
          ret.r = FirstOr(ValuesOf(node.attrs, ret.attr), ret.default)

C8_Witness ==
    /\ ret.op = "get_attrs"
    /\ Len(ret.r.out) = 2
    /\ ret.r.out[1] # ret.r.out[2]
    /\ Len(node.attrs) = 3
    /\ node.attrs[1].name = ret.attr /\ node.attrs[2].name # ret.attr

\* the fields of a message (header and value set aside) and whether b holds
\* the same value for one of them, or for the entry e of an attribute
FieldsOf(a) == (DOMAIN a.d) \ {"value"}

SameField(a, b, f) == f \in DOMAIN b.d /\ a.d[f] = b.d[f]

SameAttr(e, b) ==
    /\ Named(b.attrs, {e.name}) # {}
    /\ b.attrs[kth(Named(b.attrs, {e.name}), 1)].value = e.value

\* the part of a that differs from b (and = FALSE) and the part that equals
\* it (and = TRUE)
PartFields(a, b, and) == {f \in FieldsOf(a) : SameField(a, b, f) = and}

PartAttrs(a, b, and) ==
    EntriesAt(a.attrs, {i \in 1..Len(a.attrs) : SameAttr(a.attrs[i], b) = and})

\* C9: a - b holds exactly the fields and the attributes of a whose value
\* differs from b's or is absent in b, a & b exactly those whose value equals
\* b's, each with a's value.
C9_Partition ==
    ret.op \in {"__sub__", "__and__"} =>
        /\ DOMAIN ret.r.d = PartFields(node, ret.b, ret.op = "__and__")
        /\ \A f \in DOMAIN ret.r.d : ret.r.d[f] = node.d[f]
        /\ ret.r.attrs = PartAttrs(node, ret.b, ret.op = "__and__")

\* the names an argument of strip() stands for
NamesOf(arg) == {arg.names[i] : i \in 1..Len(arg.names)}

align4(x) == ((x + 3) \div 4) * 4

\* C11: every turn of the attribute loop, whether the type is mapped or not
\* and whether the child's decode() failed or not, leaves the cursor at
\* align4(init + clamped length), where the next attribute header is read; a
\* turn whose type is not mapped adds no entry to attrs, and the loop goes on
\* to the end of the node.
C11_CursorAdvance ==
    (Decoding /\ nla_map(node.cls) # <<>> /\ node.length > 0) =>
        /\ \A i \in 1..Len(turns) :
              /\ turns[i].next = align4(turns[i].offset + turns[i].clamped)
              /\ i < Len(turns) => turns[i + 1].offset = turns[i].next
              /\ (i = Len(turns) /\ pc # "failed") => pos = turns[i].next
        /\ Len(node.attrs) = Len(children(turns))
        /\ pc = "decoded" => pos >= node_end(node)

C11_Witness ==
    /\ pc = "decoded"
    /\ Len(turns) = 2
    /\ ~turns[1].mapped /\ turns[2].mapped /\ ~turns[2].exc
    /\ turns[2].offset = align4(turns[1].offset + turns[1].clamped)
    /\ Len(node.attrs) = 1

\* the bytes a child at the turn t reads for its 's' or 'z' field, and the
\* same bytes less one zero byte at the end
payload_of(t) == Read(wire, t.offset + 4, Max(t.head, 4) - 4)

drop_zero(p) == IF p # <<>> /\ p[Len(p)] = 0 THEN SubSeq(p, 1, Len(p) - 1) ELSE p

is_asciiz(cls, type) ==
    type \in DOMAIN t_nla_map(cls) /\ t_nla_map(cls)[type].class = "asciiz"

\* the bytes of an encoded asciiz attribute of the text t under the type
asciiz_bytes(type, t) ==
    pack_int(4 + Len(t) + 1, 2) \o pack_int(type, 2) \o t \o <<0>>
        \o Zeros(NLMSG_ALIGN(Len(t) + 1) - (Len(t) + 1))

\* decoding: the entry of an asciiz child is its payload less one zero byte at
\* the end, and the child's decode() does not fail
C12_Decoded ==
    (Decoding /\ nla_map(node.cls) # <<>> /\ Len(node.attrs) = Len(children(turns))) =>
        \A i \in 1..Len(node.attrs) :
            is_asciiz(node.cls, children(turns)[i].type) =>
                /\ ~children(turns)[i].exc
                /\ node.attrs[i].value.b = drop_zero(payload_of(children(turns)[i]))

\* encoding: an asciiz child of the text t is written as t and one zero byte,
\* under header.length = 4 + len(t) + 1, padded with zeros to a multiple of 4
C12_Encoded ==
    pc \in {"reencoded", "encoded"} =>
        \A i \in 1..Len(enc) :
            (/\ enc[i].entry > 0
             /\ node.attrs[enc[i].entry].name \in DOMAIN r_nla_map(node.cls)
             /\ is_asciiz(node.cls, r_nla_map(node.cls)[node.attrs[enc[i].entry].name].type)) =>
                /\ Read(buf, enc[i].start, enc[i].stop - enc[i].start) =
                       asciiz_bytes(r_nla_map(node.cls)[node.attrs[enc[i].entry].name].type,
                                    node.attrs[enc[i].entry].value.b)
                /\ (enc[i].stop - enc[i].start) % 4 = 0

\* C12: a 'z' field decodes to its payload less exactly one zero byte at the
\* end, to the empty string without error when the payload is empty; a text t
\* is encoded as t and one zero byte, with header.length = 4 + len(t) + 1 and
\* zero padding to a multiple of 4.
C12_ZeroTerminated == C12_Decoded /\ C12_Encoded

(***************************************************************************)
(* Properties of encode_nlas().                                            *)
(***************************************************************************)
\* the positions of attrs whose name is in the by-name table of cls
Known(cls, attrs) == {i \in 1..Len(attrs) : attrs[i].name \in DOMAIN r_nla_map(cls)}

\* e, the record of one encode(), holds one child per entry of a known name, in
\* the order of attrs, the first at the end of the field block and each other
\* one where the one before it ended, and then the message, which ends where
\* the last child ended
WrittenInOrder(cls, attrs, e) ==
    /\ Len(e) = Cardinality(Known(cls, attrs)) + 1
    /\ e[Len(e)].entry = 0
    /\ \A k \in 1..(Len(e) - 1) :
          /\ e[k].entry = kth(Known(cls, attrs), k)
          /\ e[k].start = IF k = 1
                          THEN get_size(header(cls)) + NLMSG_ALIGN(get_size(fields(cls)))
                          ELSE e[k - 1].stop
          /\ e[k].stop > e[k].start
    /\ e[Len(e)].stop = IF Len(e) = 1
                        THEN get_size(header(cls)) + NLMSG_ALIGN(get_size(fields(cls)))
                        ELSE e[Len(e) - 1].stop

\* an encode() of a node with a by-name table that returns
EncodeReturns ==
    /\ nla_map(node.cls) # <<>>
    /\ pc' \in {"encoded", "reencoded"}
    /\ ret'.op = "encode"
    /\ encode

SameNameValue(e1, e2) == e1.name = e2.name /\ e1.value = e2.value

\* C13 as written: encode_nlas() writes one child per entry of attrs, in list
\* order, each where the one before it ended; an entry of an unknown name
\* writes nothing, raises nothing and is left as it was; every encoded entry
\* holds exactly three elements afterwards, on a second encode() too.
C13_EveryEntryThree ==
    [][EncodeReturns =>
          /\ WrittenInOrder(node.cls, node.attrs, enc')
          /\ Len(node'.attrs) = Len(node.attrs)
          /\ \A i \in 1..Len(node.attrs) :
                IF i \in Known(node.cls, node.attrs)
                THEN node'.attrs[i].n = 3 /\ SameNameValue(node'.attrs[i], node.attrs[i])
                ELSE node'.attrs[i] = node.attrs[i]]_vars

\* C13: as above, where the entries that hold exactly three elements
\* afterwards are those of two or three elements; an entry of five elements, as
\* left by decode() in debug mode, is encoded like the others and left as it was.
C13_EncodeNlas ==
    [][EncodeReturns =>
          /\ WrittenInOrder(node.cls, node.attrs, enc')
          /\ Len(node'.attrs) = Len(node.attrs)
          /\ \A i \in 1..Len(node.attrs) :
                IF i \in Known(node.cls, node.attrs) /\ node.attrs[i].n \in {2, 3}
                THEN /\ node'.attrs[i].n = 3
                     /\ SameNameValue(node'.attrs[i], node.attrs[i])
                     /\ node'.attrs[i].nla.type = r_nla_map(node.cls)[node.attrs[i].name].type
                ELSE node'.attrs[i] = node.attrs[i]]_vars

C13_Witness ==
    /\ pc = "encoded"
    /\ Len(node.attrs) = 2 /\ Len(enc) = 2
    /\ node.attrs[1].name \notin DOMAIN r_nla_map(node.cls) /\ node.attrs[1].n = 2
    /\ node.attrs[2].name \in DOMAIN r_nla_map(node.cls) /\ node.attrs[2].n = 3
    /\ enc[1].entry = 2 /\ enc[2].stop = enc[1].stop

\* a node decoded in debug mode and encoded: its entries keep five elements
C13_DebugWitness ==
    /\ pc = "reencoded"
    /\ node.debug
    /\ Len(enc) = Len(node.attrs) + 1
    /\ Len(node.attrs) > 1
    /\ \A i \in 1..Len(node.attrs) : node.attrs[i].n = 5
    /\ enc[2].start = enc[1].stop

=============================================================================
